---------------------------- MODULE Spec2Model ----------------------------
(***************************************************************************)
(* A model of the genfs crate (src/lib.rs): the OpenOptions and DirOptions *)
(* builders, whose code is in the crate, and the interface of the Fs       *)
(* trait, of which the crate holds the method signatures only.             *)
(***************************************************************************)
EXTENDS Integers, FiniteSets, Sequences, TLC

(***************************************************************************)
(* Bounds of the model.                                                    *)
(***************************************************************************)
\* Values of the generic Permissions type are 0..MaxPerm.
MaxPerm == 1
\* Number of callers that hold a reference to one Fs handle.
NumCallers == 2

Perms == 0..MaxPerm
\* Values of the u32 field `flags`, which is stored and never computed with:
\* the default and one other value.
FlagValues == {0, 2147483647}
Callers == 1..NumCallers
\* Concrete types an implementation can bind to an associated type: 1..NumTypes.
NumTypes == 2
Types == 1..NumTypes
\* Offsets of a SeekFrom: 0..MaxOff for the u64 of Start, -MaxOff..MaxOff for
\* the i64 of End and Current.
MaxOff == 1
\* Number of setter calls chained on one builder after OpenOptions::new().
MaxCalls == 2

VARIABLES
    permDefault,  \* <Permissions as Default>::default() of the type chosen
    permCell,     \* whether the Permissions type chosen has interior mutability
    permNaN,      \* whether it has a value unequal to itself, as f32 has NaN
    oo,           \* an OpenOptions<Permissions> value owned by the caller
    dopts,        \* a DirOptions<Permissions> value owned by the caller
    last,         \* the last call made: its name, arguments and result
    active,       \* per caller, the Fs method it is executing, or "idle"
    result,       \* per caller, how its last completed Fs call ended
    impl,         \* the types an implementation binds to the associated types
    held,         \* per method, the type of the value obtained from it (0: none)
    sa,           \* a SeekFrom value
    sb,           \* another SeekFrom value
    cmp,          \* the last operation on the SeekFrom values and its result
    hist          \* the setter calls chained on `oo` since OpenOptions::new()

vars == <<permDefault, permCell, permNaN, oo, dopts, last, active, result, impl, held, sa, sb, cmp, hist>>

(***************************************************************************)
(* OpenOptions<Permissions>                                                *)
(***************************************************************************)
OpenOptionsValues ==
    [read : BOOLEAN, write : BOOLEAN, append : BOOLEAN, truncate : BOOLEAN,
     create : BOOLEAN, create_new : BOOLEAN, mode : Perms, flags : FlagValues]

\* #[derive(Default)]: bool::default() is false, u32::default() is 0 and
\* mode is Permissions::default().
OpenOptions_default_mode0 ==
    [read |-> FALSE, write |-> FALSE, append |-> FALSE, truncate |-> FALSE,
     create |-> FALSE, create_new |-> FALSE, mode |-> 0, flags |-> 0]

OpenOptions_default ==
    [read |-> FALSE, write |-> FALSE, append |-> FALSE, truncate |-> FALSE,
     create |-> FALSE, create_new |-> FALSE, mode |-> permDefault, flags |-> 0]

OpenOptions_new == OpenOptions_default

OpenOptions_read(self, read) == [self EXCEPT !.read = read]

OpenOptions_write(self, write) == [self EXCEPT !.write = write]

\* A setter that also grants the write access that appending implies.
OpenOptions_append_implying_write(self, append) ==
    [self EXCEPT !.append = append, !.write = self.write \/ append]

OpenOptions_append(self, append) == [self EXCEPT !.append = append]

OpenOptions_truncate(self, truncate) == [self EXCEPT !.truncate = truncate]

OpenOptions_create(self, create) == [self EXCEPT !.create = create]

\* A setter that resolves the documented precedence of create_new at once.
OpenOptions_create_new_normalising(self, create_new) ==
    IF create_new
    THEN [self EXCEPT !.create_new = TRUE, !.create = FALSE, !.truncate = FALSE]
    ELSE [self EXCEPT !.create_new = FALSE]

OpenOptions_create_new(self, create_new) == [self EXCEPT !.create_new = create_new]

OpenOptions_mode(self, mode) == [self EXCEPT !.mode = mode]

OpenOptions_custom_flags(self, flags) == [self EXCEPT !.flags = flags]

\* The value of a Permissions type with permNaN that is unequal to itself.
Permissions_NaN == MaxPerm

\* <Permissions as PartialEq>::eq, which the derived PartialEq calls on mode:
\* a partial equivalence relation, reflexive only when the type has no
\* value unequal to itself.
Permissions_eq(a, b) == a = b /\ ~(permNaN /\ a = Permissions_NaN)

\* #[derive(PartialEq)]: two values are equal when every field is, mode by
\* the == of the Permissions type.
OpenOptions_eq(a, b) ==
    /\ a.read = b.read /\ a.write = b.write /\ a.append = b.append
    /\ a.truncate = b.truncate /\ a.create = b.create
    /\ a.create_new = b.create_new /\ Permissions_eq(a.mode, b.mode)
    /\ a.flags = b.flags

\* A setter call: f the field its setter sets, b the bool argument, n the
\* numeric one.
SetterCalls ==
    [f : {"read", "write", "append", "truncate", "create", "create_new"},
     b : BOOLEAN, n : {0}]
        \cup [f : {"mode"}, b : {FALSE}, n : Perms]
        \cup [f : {"flags"}, b : {FALSE}, n : FlagValues]

\* The builder after the call c on the builder self.
ApplySetter(self, c) ==
    CASE c.f = "read" -> OpenOptions_read(self, c.b)
      [] c.f = "write" -> OpenOptions_write(self, c.b)
      [] c.f = "append" -> OpenOptions_append(self, c.b)
      [] c.f = "truncate" -> OpenOptions_truncate(self, c.b)
      [] c.f = "create" -> OpenOptions_create(self, c.b)
      [] c.f = "create_new" -> OpenOptions_create_new(self, c.b)
      [] c.f = "mode" -> OpenOptions_mode(self, c.n)
      [] c.f = "flags" -> OpenOptions_custom_flags(self, c.n)

(***************************************************************************)
(* DirOptions<Permissions>                                                 *)
(***************************************************************************)
DirOptionsValues == [recursive : BOOLEAN, mode : Perms, flags : FlagValues]

DirOptions_default == [recursive |-> FALSE, mode |-> permDefault, flags |-> 0]

DirOptions_new == DirOptions_default

DirOptions_recursive(self, recursive) == [self EXCEPT !.recursive = recursive]

DirOptions_mode(self, mode) == [self EXCEPT !.mode = mode]

DirOptions_custom_flags(self, flags) == [self EXCEPT !.flags = flags]

\* #[derive(PartialEq)] of DirOptions.
DirOptions_eq(a, b) ==
    /\ a.recursive = b.recursive /\ Permissions_eq(a.mode, b.mode)
    /\ a.flags = b.flags

(***************************************************************************)
(* The record of a call.  op is the method, b its bool argument (or, for   *)
(* an Fs call, whether it returned Ok), n its numeric argument, ret the    *)
(* place the returned reference points to ("value" when the result is      *)
(* returned by value).                                                     *)
(***************************************************************************)
Call(op, b, n, ret) == [op |-> op, b |-> b, n |-> n, ret |-> ret]

\* The methods of the Fs trait.
FsMethods ==
    {"open", "remove_file", "metadata", "symlink_metadata", "rename", "copy",
     "hard_link", "symlink", "read_link", "canonicalize", "create_dir",
     "remove_dir", "remove_dir_all", "read_dir", "set_permissions"}

(***************************************************************************)
(* The associated types of Fs, File and DirEntry.  An implementation binds *)
(* each of them to a concrete type; the compiler accepts the               *)
(* implementation when the bounds written on the associated types of Fs    *)
(* hold.                                                                   *)
(***************************************************************************)
FsAssocTypes ==
    [Path : Types, PathOwned : Types, Metadata : Types, Permissions : Types,
     Error : Types]
FileAssocTypes == [Error : Types]
DirEntryAssocTypes ==
    [Path : Types, PathOwned : Types, Metadata : Types, FileType : Types,
     Error : Types]
Impls == [fs : FsAssocTypes, file : FileAssocTypes, de : DirEntryAssocTypes]

\* type File: File<Error = Self::Error>;
Fs_File_bound(i) == i.file.Error = i.fs.Error

\* The bound without its Metadata = Self::Metadata.
Fs_DirEntry_bound_without_Metadata(i) ==
    /\ i.de.Path = i.fs.Path
    /\ i.de.Error = i.fs.Error

\* type DirEntry: DirEntry<Path = Self::Path, Metadata = Self::Metadata,
\*                         Error = Self::Error>;
Fs_DirEntry_bound(i) ==
    /\ i.de.Path = i.fs.Path
    /\ i.de.Metadata = i.fs.Metadata
    /\ i.de.Error = i.fs.Error

\* The implementations that compile.
Implementations == {i \in Impls : Fs_File_bound(i) /\ Fs_DirEntry_bound(i)}

\* The methods whose Ok value is of an associated type, and that type.
TypedMethods ==
    {"Fs::read_link", "Fs::canonicalize", "Fs::metadata",
     "DirEntry::path", "DirEntry::metadata", "DirEntry::file_type"}

ReturnType(i, m) ==
    CASE m = "Fs::read_link" -> i.fs.PathOwned
      [] m = "Fs::canonicalize" -> i.fs.PathOwned
      [] m = "Fs::metadata" -> i.fs.Metadata
      [] m = "DirEntry::path" -> i.de.PathOwned
      [] m = "DirEntry::metadata" -> i.de.Metadata
      [] m = "DirEntry::file_type" -> i.de.FileType

(***************************************************************************)
(* SeekFrom: the enum, the traits it derives and what they provide.        *)
(***************************************************************************)
SeekFromValues ==
    [tag : {"Start"}, off : 0..MaxOff]
        \cup [tag : {"End", "Current"}, off : (-MaxOff)..MaxOff]

\* The enum deriving the ordering traits as well.
SeekFrom_derives_with_order ==
    {"Copy", "PartialEq", "Eq", "Clone", "Debug", "PartialOrd", "Ord"}

\* #[derive(Copy, PartialEq, Eq, Clone, Debug)]
SeekFrom_derives == {"Copy", "PartialEq", "Eq", "Clone", "Debug"}

\* The derived PartialEq: the same variant holding the same offset.
SeekFrom_eq(a, b) == a.tag = b.tag /\ a.off = b.off

\* What a derived PartialOrd would compare: the variants in the order of
\* their declaration, then the offsets.
SeekFrom_variant(a) ==
    CASE a.tag = "Start" -> 0 [] a.tag = "End" -> 1 [] a.tag = "Current" -> 2
SeekFrom_lt(a, b) ==
    \/ SeekFrom_variant(a) < SeekFrom_variant(b)
    \/ SeekFrom_variant(a) = SeekFrom_variant(b) /\ a.off < b.off

\* The trait an operator needs: == and != need PartialEq, < and > PartialOrd.
OperatorTrait(op) == IF op \in {"eq", "ne"} THEN "PartialEq" ELSE "PartialOrd"

Answer(b) == IF b THEN "true" ELSE "false"

\* The result of `a op b`: "no impl" when SeekFrom lacks the operator's trait.
Compare(op, a, b) ==
    IF OperatorTrait(op) \notin SeekFrom_derives THEN "no impl"
    ELSE CASE op = "eq" -> Answer(SeekFrom_eq(a, b))
           [] op = "ne" -> Answer(~SeekFrom_eq(a, b))
           [] op = "lt" -> Answer(SeekFrom_lt(a, b))
           [] op = "gt" -> Answer(SeekFrom_lt(b, a))

\* The types of the state: the fields of the two structs, and per caller of
\* an Fs value the method it runs and the Result of its last call.
TypeOK ==
    /\ permDefault \in Perms
    /\ permCell \in BOOLEAN
    /\ permNaN \in BOOLEAN
    /\ oo \in OpenOptionsValues
    /\ dopts \in DirOptionsValues
    /\ last \in [op : STRING, b : BOOLEAN, n : Int, ret : {"value", "oo", "dopts"}]
    /\ active \in [Callers -> FsMethods \cup {"idle"}]
    /\ result \in [Callers -> {"none", "Ok", "Err"}]
    /\ impl \in Implementations
    /\ held \in [TypedMethods -> {0} \cup Types]
    /\ sa \in SeekFromValues
    /\ sb \in SeekFromValues
    /\ cmp \in [op : {"none", "eq", "ne", "lt", "gt", "copy"},
                res : {"none", "true", "false", "no impl", "copied", "moved"}]
    /\ hist \in Seq(SetterCalls) /\ Len(hist) <= MaxCalls

\* No implementation is under study: every associated type is one type.
NoTypes ==
    /\ impl = [fs |-> [Path |-> 1, PathOwned |-> 1, Metadata |-> 1,
                       Permissions |-> 1, Error |-> 1],
               file |-> [Error |-> 1],
               de |-> [Path |-> 1, PathOwned |-> 1, Metadata |-> 1,
                       FileType |-> 1, Error |-> 1]]
    /\ held = [m \in TypedMethods |-> 0]

NoSeek ==
    /\ sa = [tag |-> "Start", off |-> 0]
    /\ sb = [tag |-> "Start", off |-> 0]
    /\ cmp = [op |-> "none", res |-> "none"]

NoChain == hist = << >>

Init ==
    /\ permDefault \in Perms
    /\ permCell = FALSE
    /\ permNaN = FALSE
    /\ oo = OpenOptions_new
    /\ dopts = DirOptions_new
    /\ last = Call("start", FALSE, 0, "value")
    /\ active = [c \in Callers |-> "idle"]
    /\ result = [c \in Callers |-> "none"]
    /\ NoTypes /\ NoSeek /\ NoChain

optionsIdle == UNCHANGED <<permDefault, oo, dopts, last>>
callsIdle == UNCHANGED <<active, result>>
typesIdle == UNCHANGED <<permCell, permNaN, impl, held>>
seekIdle == UNCHANGED <<sa, sb, cmp>>
chainIdle == UNCHANGED hist

fsIdle == callsIdle /\ typesIdle /\ seekIdle /\ chainIdle

(***************************************************************************)
(* A builder that is not an argument of a call in which code of the        *)
(* Permissions type or of a backend runs.  The call says nothing of it:    *)
(* code that shares it with the owner (as behind Rc<RefCell<..>>) may call *)
(* its setters during the call and leave any value of the type.            *)
(***************************************************************************)
NotPassed(Values) == Values

(***************************************************************************)
(* Calls on the OpenOptions value.  A setter takes self, assigns one field *)
(* and returns self.  new() calls Permissions::default() and mode() drops  *)
(* the mode held before, which runs the drop of the Permissions type; the  *)
(* other setters move bools and a u32 and run no other code.               *)
(***************************************************************************)
NewOpenOptions ==
    /\ oo' = OpenOptions_new
    /\ dopts' \in NotPassed(DirOptionsValues)
    /\ last' = Call("OpenOptions::new", FALSE, 0, "value")
    /\ UNCHANGED permDefault /\ fsIdle

SetRead(v) ==
    /\ oo' = OpenOptions_read(oo, v)
    /\ last' = Call("OpenOptions::read", v, 0, "oo")
    /\ UNCHANGED <<permDefault, dopts>> /\ fsIdle

SetWrite(v) ==
    /\ oo' = OpenOptions_write(oo, v)
    /\ last' = Call("OpenOptions::write", v, 0, "oo")
    /\ UNCHANGED <<permDefault, dopts>> /\ fsIdle

SetAppend(v) ==
    /\ oo' = OpenOptions_append(oo, v)
    /\ last' = Call("OpenOptions::append", v, 0, "oo")
    /\ UNCHANGED <<permDefault, dopts>> /\ fsIdle

SetTruncate(v) ==
    /\ oo' = OpenOptions_truncate(oo, v)
    /\ last' = Call("OpenOptions::truncate", v, 0, "oo")
    /\ UNCHANGED <<permDefault, dopts>> /\ fsIdle

SetCreate(v) ==
    /\ oo' = OpenOptions_create(oo, v)
    /\ last' = Call("OpenOptions::create", v, 0, "oo")
    /\ UNCHANGED <<permDefault, dopts>> /\ fsIdle

SetCreateNew(v) ==
    /\ oo' = OpenOptions_create_new(oo, v)
    /\ last' = Call("OpenOptions::create_new", v, 0, "oo")
    /\ UNCHANGED <<permDefault, dopts>> /\ fsIdle

SetMode(m) ==
    /\ oo' = OpenOptions_mode(oo, m)
    /\ dopts' \in NotPassed(DirOptionsValues)
    /\ last' = Call("OpenOptions::mode", FALSE, m, "oo")
    /\ UNCHANGED permDefault /\ fsIdle

SetCustomFlags(f) ==
    /\ oo' = OpenOptions_custom_flags(oo, f)
    /\ last' = Call("OpenOptions::custom_flags", FALSE, f, "oo")
    /\ UNCHANGED <<permDefault, dopts>> /\ fsIdle

(***************************************************************************)
(* Calls on the DirOptions value.                                          *)
(***************************************************************************)
NewDirOptions ==
    /\ dopts' = DirOptions_new
    /\ oo' \in NotPassed(OpenOptionsValues)
    /\ last' = Call("DirOptions::new", FALSE, 0, "value")
    /\ UNCHANGED permDefault /\ fsIdle

SetRecursive(v) ==
    /\ dopts' = DirOptions_recursive(dopts, v)
    /\ last' = Call("DirOptions::recursive", v, 0, "dopts")
    /\ UNCHANGED <<permDefault, oo>> /\ fsIdle

SetDirMode(m) ==
    /\ dopts' = DirOptions_mode(dopts, m)
    /\ oo' \in NotPassed(OpenOptionsValues)
    /\ last' = Call("DirOptions::mode", FALSE, m, "dopts")
    /\ UNCHANGED permDefault /\ fsIdle

SetDirCustomFlags(f) ==
    /\ dopts' = DirOptions_custom_flags(dopts, f)
    /\ last' = Call("DirOptions::custom_flags", FALSE, f, "dopts")
    /\ UNCHANGED <<permDefault, oo>> /\ fsIdle

(***************************************************************************)
(* Fs::open and Fs::create_dir as seen by the owner of the options.  The   *)
(* trait declares the methods without a body: whether a call returns Ok or *)
(* Err is the backend's choice.  What the signature fixes is how the       *)
(* options are passed: by shared reference.  Through a shared reference    *)
(* the callee reaches Permissions::clone, eq, hash and fmt by the derived  *)
(* Clone, PartialEq, Hash and Debug of the options, which get &self.mode:  *)
(* when the Permissions type has interior mutability they may store any    *)
(* value in mode.  The bool fields and the u32 have none.  Otherwise       *)
(* the callee leaves the referent as it is; through an exclusive one it    *)
(* may leave any value of the type.  The builder that is not passed is     *)
(* one of which the signature says nothing.                                *)
(***************************************************************************)
Referent(borrow, v, Values) ==
    IF borrow = "&"
    THEN IF permCell THEN {[v EXCEPT !.mode = m] : m \in Perms} ELSE {v}
    ELSE Values

\* An open that took its options as &mut OpenOptions.
Fs_open_options_exclusive == "&mut"

\* options: &OpenOptions<Self::Permissions>
Fs_open_options == "&"

\* options: &DirOptions<Self::Permissions>
Fs_create_dir_options == "&"

Fs_open(ok) ==
    /\ oo' \in Referent(Fs_open_options, oo, OpenOptionsValues)
    /\ dopts' \in NotPassed(DirOptionsValues)
    /\ last' = Call("Fs::open", ok, 0, "value")
    /\ UNCHANGED permDefault /\ fsIdle

Fs_create_dir(ok) ==
    /\ dopts' \in Referent(Fs_create_dir_options, dopts, DirOptionsValues)
    /\ oo' \in NotPassed(OpenOptionsValues)
    /\ last' = Call("Fs::create_dir", ok, 0, "value")
    /\ UNCHANGED permDefault /\ fsIdle

(***************************************************************************)
(* The derived Clone, PartialEq, Hash and Debug of the builders, called by *)
(* the owner.  Each takes &self and calls the method of the same name of   *)
(* the Permissions type on &self.mode.  eq is called on the value and      *)
(* itself; what a Permissions type with interior mutability answers is its *)
(* own choice.  clone_from is the provided method of Clone, which assigns   *)
(* source.clone() to *self.  A builder that is not an argument is one of   *)
(* which the call says nothing.                                            *)
(***************************************************************************)
DerivedMethods == {"clone", "eq", "hash", "fmt"}

\* What clone() returns: a copy field by field, mode what Permissions::clone
\* returns, which is the choice of the Permissions type.
Cloned(v) == {[v EXCEPT !.mode = m] : m \in Perms}

Answers(tr, equal) ==
    IF tr = "eq" THEN (IF permCell THEN BOOLEAN ELSE {equal}) ELSE {FALSE}

OpenOptions_derived(tr) ==
    /\ oo' \in Referent("&", oo, OpenOptionsValues)
    /\ dopts' \in NotPassed(DirOptionsValues)
    /\ \E b \in Answers(tr, OpenOptions_eq(oo, oo)) :
          last' = Call("OpenOptions::" \o tr, b, 0, "value")
    /\ UNCHANGED permDefault /\ fsIdle

DirOptions_derived(tr) ==
    /\ dopts' \in Referent("&", dopts, DirOptionsValues)
    /\ oo' \in NotPassed(OpenOptionsValues)
    /\ \E b \in Answers(tr, DirOptions_eq(dopts, dopts)) :
          last' = Call("DirOptions::" \o tr, b, 0, "value")
    /\ UNCHANGED permDefault /\ fsIdle

OpenOptions_clone_from(source) ==
    /\ oo' \in Cloned(source)
    /\ dopts' \in NotPassed(DirOptionsValues)
    /\ last' = Call("OpenOptions::clone_from", FALSE, 0, "value")
    /\ UNCHANGED permDefault /\ fsIdle

DirOptions_clone_from(source) ==
    /\ dopts' \in Cloned(source)
    /\ oo' \in NotPassed(OpenOptionsValues)
    /\ last' = Call("DirOptions::clone_from", FALSE, 0, "value")
    /\ UNCHANGED permDefault /\ fsIdle

Next ==
    \/ NewOpenOptions
    \/ \E v \in BOOLEAN : SetRead(v)
    \/ \E v \in BOOLEAN : SetWrite(v)
    \/ \E v \in BOOLEAN : SetAppend(v)
    \/ \E v \in BOOLEAN : SetTruncate(v)
    \/ \E v \in BOOLEAN : SetCreate(v)
    \/ \E v \in BOOLEAN : SetCreateNew(v)
    \/ \E m \in Perms : SetMode(m)
    \/ \E f \in FlagValues : SetCustomFlags(f)
    \/ NewDirOptions
    \/ \E v \in BOOLEAN : SetRecursive(v)
    \/ \E m \in Perms : SetDirMode(m)
    \/ \E f \in FlagValues : SetDirCustomFlags(f)

Spec == Init /\ [][Next]_vars

(***************************************************************************)
(* Calls of open and create_dir on options the builders have produced:     *)
(* every value of OpenOptionsValues and of DirOptionsValues is one that    *)
(* new() followed by setter calls builds, for a Permissions type with or   *)
(* without interior mutability.  The owner sees no result of a comparison  *)
(* of Permissions values in these calls, nor a default value: the default  *)
(* is the zero value.                                                      *)
(***************************************************************************)
InitOpen ==
    /\ permDefault = 0
    /\ permCell \in BOOLEAN
    /\ permNaN = FALSE
    /\ oo \in OpenOptionsValues
    /\ dopts \in DirOptionsValues
    /\ last = Call("start", FALSE, 0, "value")
    /\ active = [c \in Callers |-> "idle"]
    /\ result = [c \in Callers |-> "none"]
    /\ NoTypes /\ NoSeek /\ NoChain

NextOpen ==
    \/ \E ok \in BOOLEAN : Fs_open(ok)
    \/ \E ok \in BOOLEAN : Fs_create_dir(ok)

SpecOpen == InitOpen /\ [][NextOpen]_vars

(***************************************************************************)
(* The owner's calls of the derived methods on options the builders have   *)
(* produced, for a Permissions type with or without interior mutability,   *)
(* with or without a value unequal to itself.  Permissions::default() is   *)
(* not called.                                                             *)
(***************************************************************************)
InitDerived ==
    /\ permDefault = 0
    /\ permCell \in BOOLEAN
    /\ permNaN \in BOOLEAN
    /\ oo \in OpenOptionsValues
    /\ dopts \in DirOptionsValues
    /\ last = Call("start", FALSE, 0, "value")
    /\ active = [c \in Callers |-> "idle"]
    /\ result = [c \in Callers |-> "none"]
    /\ NoTypes /\ NoSeek /\ NoChain

NextDerived ==
    \/ \E tr \in DerivedMethods : OpenOptions_derived(tr)
    \/ \E tr \in DerivedMethods : DirOptions_derived(tr)
    \/ \E source \in OpenOptionsValues : OpenOptions_clone_from(source)
    \/ \E source \in DirOptionsValues : DirOptions_clone_from(source)

SpecDerived == InitDerived /\ [][NextDerived]_vars

(***************************************************************************)
(* The Fs trait: the receiver of each method, and the calls in progress on *)
(* one Fs value.  A method with receiver &mut self runs under an exclusive *)
(* borrow of the value, one with receiver &self under a shared borrow; at  *)
(* any time the value is borrowed by one exclusive borrow or by any number *)
(* of shared ones.                                                         *)
(***************************************************************************)
\* The trait with rename declared on a shared receiver.
Receiver_rename_shared(op) ==
    IF op \in {"remove_file", "copy", "hard_link", "symlink",
               "create_dir", "remove_dir", "remove_dir_all", "set_permissions"}
    THEN "&mut self"
    ELSE "&self"

Receiver(op) ==
    IF op \in {"remove_file", "rename", "copy", "hard_link", "symlink",
               "create_dir", "remove_dir", "remove_dir_all", "set_permissions"}
    THEN "&mut self"
    ELSE "&self"

\* Caller c may borrow the Fs value for a method with receiver recv.
CanBorrow(c, recv) ==
    \A d \in Callers \ {c} :
        \/ active[d] = "idle"
        \/ recv = "&self" /\ Receiver(active[d]) = "&self"

Begin(c, op) ==
    /\ active[c] = "idle"
    /\ CanBorrow(c, Receiver(op))
    /\ active' = [active EXCEPT ![c] = op]
    /\ UNCHANGED <<permDefault, oo, dopts, last, result>>
    /\ typesIdle /\ seekIdle /\ chainIdle

\* Every method returns a Result: Ok or Err, as the backend decides.
End(c, r) ==
    /\ active[c] # "idle"
    /\ active' = [active EXCEPT ![c] = "idle"]
    /\ result' = [result EXCEPT ![c] = r]
    /\ UNCHANGED <<permDefault, oo, dopts, last>>
    /\ typesIdle /\ seekIdle /\ chainIdle

NextFs ==
    \/ \E c \in Callers, op \in FsMethods : Begin(c, op)
    \/ \E c \in Callers, r \in {"Ok", "Err"} : End(c, r)

SpecFs == Init /\ [][NextFs]_vars

(***************************************************************************)
(* An implementation of Fs and the values a caller obtains from it.  Init  *)
(* draws the implementation from those that compile; each action is a      *)
(* successful call of a method, whose value has the type the signature     *)
(* names.                                                                  *)
(***************************************************************************)
InitTypes ==
    /\ permDefault = 0
    /\ permCell = FALSE
    /\ permNaN = FALSE
    /\ oo = OpenOptions_new
    /\ dopts = DirOptions_new
    /\ last = Call("start", FALSE, 0, "value")
    /\ active = [c \in Callers |-> "idle"]
    /\ result = [c \in Callers |-> "none"]
    /\ impl \in Implementations
    /\ held = [m \in TypedMethods |-> 0]
    /\ NoSeek /\ NoChain

Obtain(m) ==
    /\ held[m] = 0
    /\ held' = [held EXCEPT ![m] = ReturnType(impl, m)]
    /\ UNCHANGED <<permCell, permNaN, impl>>
    /\ optionsIdle /\ callsIdle /\ seekIdle /\ chainIdle

Fs_read_link == Obtain("Fs::read_link")
Fs_canonicalize == Obtain("Fs::canonicalize")
Fs_metadata == Obtain("Fs::metadata")
DirEntry_path == Obtain("DirEntry::path")
DirEntry_metadata == Obtain("DirEntry::metadata")
DirEntry_file_type == Obtain("DirEntry::file_type")

NextTypes ==
    \/ Fs_read_link
    \/ Fs_canonicalize
    \/ Fs_metadata
    \/ DirEntry_path
    \/ DirEntry_metadata
    \/ DirEntry_file_type

SpecTypes == InitTypes /\ [][NextTypes]_vars

(***************************************************************************)
(* Two SeekFrom values and the operations a caller applies to them.        *)
(***************************************************************************)
InitSeek ==
    /\ permDefault = 0
    /\ permCell = FALSE
    /\ permNaN = FALSE
    /\ oo = OpenOptions_new
    /\ dopts = DirOptions_new
    /\ last = Call("start", FALSE, 0, "value")
    /\ active = [c \in Callers |-> "idle"]
    /\ result = [c \in Callers |-> "none"]
    /\ sa \in SeekFromValues
    /\ sb \in SeekFromValues
    /\ cmp = [op |-> "none", res |-> "none"]
    /\ NoTypes /\ NoChain

\* sa op sb
SeekCompare(op) ==
    /\ cmp' = [op |-> op, res |-> Compare(op, sa, sb)]
    /\ UNCHANGED <<sa, sb>>
    /\ optionsIdle /\ callsIdle /\ typesIdle /\ chainIdle

\* sb = sa: a copy when SeekFrom is Copy, which leaves sa usable.
SeekCopy ==
    /\ sb' = sa
    /\ cmp' = [op |-> "copy",
               res |-> IF "Copy" \in SeekFrom_derives THEN "copied" ELSE "moved"]
    /\ UNCHANGED sa
    /\ optionsIdle /\ callsIdle /\ typesIdle /\ chainIdle

NextSeek ==
    \/ SeekCompare("eq")
    \/ SeekCompare("ne")
    \/ SeekCompare("lt")
    \/ SeekCompare("gt")
    \/ SeekCopy

SpecSeek == InitSeek /\ [][NextSeek]_vars

(***************************************************************************)
(* A chain of setter calls on the builder returned by OpenOptions::new():  *)
(* OpenOptions::new().read(..).create(..) and so on, with the calls made   *)
(* so far kept in hist.                                                    *)
(***************************************************************************)
ChainNew ==
    /\ oo' = OpenOptions_new
    /\ dopts' \in NotPassed(DirOptionsValues)
    /\ hist' = << >>
    /\ UNCHANGED <<permDefault, last>>
    /\ callsIdle /\ typesIdle /\ seekIdle

Chain(c) ==
    /\ Len(hist) < MaxCalls
    /\ oo' = ApplySetter(oo, c)
    /\ dopts' \in IF c.f = "mode" THEN NotPassed(DirOptionsValues) ELSE {dopts}
    /\ hist' = Append(hist, c)
    /\ UNCHANGED <<permDefault, last>>
    /\ callsIdle /\ typesIdle /\ seekIdle

NextChain ==
    \/ ChainNew
    \/ \E v \in BOOLEAN : Chain([f |-> "read", b |-> v, n |-> 0])
    \/ \E v \in BOOLEAN : Chain([f |-> "write", b |-> v, n |-> 0])
    \/ \E v \in BOOLEAN : Chain([f |-> "append", b |-> v, n |-> 0])
    \/ \E v \in BOOLEAN : Chain([f |-> "truncate", b |-> v, n |-> 0])
    \/ \E v \in BOOLEAN : Chain([f |-> "create", b |-> v, n |-> 0])
    \/ \E v \in BOOLEAN : Chain([f |-> "create_new", b |-> v, n |-> 0])
    \/ \E m \in Perms : Chain([f |-> "mode", b |-> FALSE, n |-> m])
    \/ \E x \in FlagValues : Chain([f |-> "flags", b |-> FALSE, n |-> x])

\* Chains for a Permissions type with or without a value unequal to itself.
InitChain ==
    /\ permDefault \in Perms
    /\ permCell = FALSE
    /\ permNaN \in BOOLEAN
    /\ oo = OpenOptions_new
    /\ dopts = DirOptions_new
    /\ last = Call("start", FALSE, 0, "value")
    /\ active = [c \in Callers |-> "idle"]
    /\ result = [c \in Callers |-> "none"]
    /\ NoTypes /\ NoSeek /\ NoChain

SpecChain == InitChain /\ [][NextChain]_vars

(***************************************************************************)
(* Properties.                                                             *)
(***************************************************************************)
OpenOptionsFlags == {"read", "write", "append", "truncate", "create", "create_new"}
OpenOptionsFields == OpenOptionsFlags \cup {"mode", "flags"}
DirOptionsFields == {"recursive", "mode", "flags"}

\* The method that sets field f of OpenOptions, resp. of DirOptions.
OpenOptionsSetter(f) ==
    CASE f = "read" -> "OpenOptions::read"
      [] f = "write" -> "OpenOptions::write"
      [] f = "append" -> "OpenOptions::append"
      [] f = "truncate" -> "OpenOptions::truncate"
      [] f = "create" -> "OpenOptions::create"
      [] f = "create_new" -> "OpenOptions::create_new"
      [] f = "mode" -> "OpenOptions::mode"
      [] f = "flags" -> "OpenOptions::custom_flags"
DirOptionsSetter(f) ==
    CASE f = "recursive" -> "DirOptions::recursive"
      [] f = "mode" -> "DirOptions::mode"
      [] f = "flags" -> "DirOptions::custom_flags"

\* The setters of OpenOptions, resp. of DirOptions.
OpenOptionsSetters == {OpenOptionsSetter(f) : f \in OpenOptionsFields}
DirOptionsSetters == {DirOptionsSetter(f) : f \in DirOptionsFields}

\* The argument of call c, a call of the setter of field f.
Argument(c, f) == IF f \in {"mode", "flags"} THEN c.n ELSE c.b

\* C1: a builder returned by OpenOptions::new() has every boolean flag false
\* and mode equal to the default of the Permissions type; one returned by
\* DirOptions::new() has recursive false and mode at the default.  This holds
\* whatever the default of the Permissions type is.
C1_NewIsAllFalseAndDefaultMode ==
    /\ last.op = "OpenOptions::new" =>
          /\ \A f \in OpenOptionsFlags : oo[f] = FALSE
          /\ oo.mode = permDefault
    /\ last.op = "DirOptions::new" =>
          /\ dopts.recursive = FALSE
          /\ dopts.mode = permDefault

\* OpenOptions::new() was called, after the DirOptions value was configured,
\* for a Permissions type whose default is not the zero value.
C1_Witness ==
    /\ last.op = "OpenOptions::new"
    /\ permDefault # 0
    /\ dopts.recursive /\ dopts.mode # permDefault

\* Every setter accepts every argument in every state of the builder.
SettersAccept ==
    /\ \A v \in BOOLEAN :
          /\ ENABLED SetRead(v) /\ ENABLED SetWrite(v) /\ ENABLED SetAppend(v)
          /\ ENABLED SetTruncate(v) /\ ENABLED SetCreate(v)
          /\ ENABLED SetCreateNew(v) /\ ENABLED SetRecursive(v)
    /\ \A m \in Perms : ENABLED SetMode(m) /\ ENABLED SetDirMode(m)
    /\ \A f \in FlagValues : ENABLED SetCustomFlags(f) /\ ENABLED SetDirCustomFlags(f)

\* A step that is a call of a setter sets the setter's field to the argument,
\* leaves every other field of the builder as it was, and returns the
\* builder it was called on; a setter other than mode, which runs no code of
\* the Permissions type, leaves the other builder as it was too.
SettersFrame ==
    /\ last'.op \in OpenOptionsSetters =>
          \A f \in OpenOptionsFields :
              last'.op = OpenOptionsSetter(f) =>
                  /\ oo'[f] = Argument(last', f)
                  /\ \A g \in OpenOptionsFields \ {f} : oo'[g] = oo[g]
                  /\ f # "mode" => dopts' = dopts
                  /\ last'.ret = "oo"
    /\ last'.op \in DirOptionsSetters =>
          \A f \in DirOptionsFields :
              last'.op = DirOptionsSetter(f) =>
                  /\ dopts'[f] = Argument(last', f)
                  /\ \A g \in DirOptionsFields \ {f} : dopts'[g] = dopts[g]
                  /\ f # "mode" => oo' = oo
                  /\ last'.ret = "dopts"

C3_OpenLeavesOptionsAsGiven ==
    [][/\ last'.op = "Fs::open" => oo' = oo
       /\ last'.op = "Fs::create_dir" => dopts' = dopts]_vars

\* C3, amended: every call of Fs::open, successful or failed, leaves every
\* field other than mode of the OpenOptions value passed to it as it was,
\* and leaves mode as it was too when the Permissions type has no interior
\* mutability; likewise Fs::create_dir and the DirOptions value passed to it.
C3_OpenLeavesFlagsAsGiven ==
    [][/\ last'.op = "Fs::open" =>
             /\ \A f \in OpenOptionsFields \ {"mode"} : oo'[f] = oo[f]
             /\ ~permCell => oo' = oo
       /\ last'.op = "Fs::create_dir" =>
             /\ \A f \in DirOptionsFields \ {"mode"} : dopts'[f] = dopts[f]
             /\ ~permCell => dopts' = dopts]_vars

\* An open has failed on options that ask for a new file to be created.
C3_Witness ==
    /\ last.op = "Fs::open" /\ ~last.b
    /\ oo.create_new /\ oo.write /\ oo.mode # permDefault
    /\ ~permCell

\* The methods the claim calls mutating, and those it calls read-only.
MutatingMethods ==
    {"remove_file", "rename", "copy", "hard_link", "symlink", "create_dir",
     "remove_dir", "remove_dir_all", "set_permissions"}
ReadOnlyMethods ==
    {"open", "metadata", "symlink_metadata", "read_link", "canonicalize", "read_dir"}

\* C10: through one Fs handle, a mutating operation in progress is the only
\* operation in progress on that handle, while a read-only operation can be
\* started whenever the operations in progress are read-only ones.
C10_MutatingCallsAreExclusive ==
    \A c \in Callers :
        /\ active[c] \in MutatingMethods =>
              \A d \in Callers \ {c} : active[d] = "idle"
        /\ (/\ active[c] = "idle"
            /\ \A d \in Callers \ {c} : active[d] \in ReadOnlyMethods \cup {"idle"})
           => \A op \in ReadOnlyMethods : ENABLED Begin(c, op)

\* Two read-only operations are in progress at once, after a mutating one
\* has completed.
C10_Witness ==
    /\ active[1] = "open" /\ active[2] = "read_dir"
    /\ result[1] = "Ok"

\* C11 as stated: the DirEntry type an Fs binds has its Path, PathOwned,
\* Metadata and Error types equal to those of the Fs, so that a path from
\* DirEntry::path has the type of one from Fs::read_link or
\* Fs::canonicalize, and metadata from DirEntry::metadata the type of
\* metadata from Fs::metadata.  (Fs has no FileType to agree with.)
C11_AllDirEntryTypesAgree ==
    /\ impl.de.Path = impl.fs.Path
    /\ impl.de.PathOwned = impl.fs.PathOwned
    /\ impl.de.Metadata = impl.fs.Metadata
    /\ impl.de.Error = impl.fs.Error
    /\ \A m \in {"Fs::read_link", "Fs::canonicalize"} :
          held["DirEntry::path"] # 0 /\ held[m] # 0
              => held["DirEntry::path"] = held[m]
    /\ held["DirEntry::metadata"] # 0 /\ held["Fs::metadata"] # 0
          => held["DirEntry::metadata"] = held["Fs::metadata"]

\* C11, amended: the DirEntry type an Fs binds has its Path, Metadata and
\* Error types equal to those of the Fs (the three the bound on Fs::DirEntry
\* names), so metadata from DirEntry::metadata has the type of metadata from
\* Fs::metadata, and the two paths an Fs returns have one type.
C11_BoundTypesAgree ==
    /\ impl.de.Path = impl.fs.Path
    /\ impl.de.Metadata = impl.fs.Metadata
    /\ impl.de.Error = impl.fs.Error
    /\ held["DirEntry::metadata"] # 0 /\ held["Fs::metadata"] # 0
          => held["DirEntry::metadata"] = held["Fs::metadata"]
    /\ held["Fs::read_link"] # 0 /\ held["Fs::canonicalize"] # 0
          => held["Fs::read_link"] = held["Fs::canonicalize"]

\* Metadata was obtained from DirEntry::metadata and from Fs::metadata, and
\* paths from DirEntry::path and Fs::read_link, of an implementation whose
\* DirEntry has a PathOwned of its own.
C11_Witness ==
    /\ held["DirEntry::metadata"] # 0 /\ held["Fs::metadata"] # 0
    /\ held["DirEntry::path"] # 0 /\ held["Fs::read_link"] # 0
    /\ held["DirEntry::path"] # held["Fs::read_link"]

\* A SeekFrom is one of the three variants, Start with an unsigned offset.
SeekFromShape(a) ==
    /\ a.tag \in {"Start", "End", "Current"}
    /\ a.tag = "Start" => a.off >= 0

\* C12 as stated: SeekFrom has exactly three variants and can be copied,
\* compared for equality and compared for order: every copy, every == or !=
\* and every < or > of two SeekFrom values yields a result.
C12_EqualityAndOrder ==
    /\ SeekFromShape(sa) /\ SeekFromShape(sb)
    /\ cmp.op = "copy" => cmp.res = "copied"
    /\ cmp.op \in {"eq", "ne", "lt", "gt"} => cmp.res \in {"true", "false"}

\* C12, amended: SeekFrom has exactly three variants and can be copied and
\* compared for equality: a copy equals the original, == holds exactly of the
\* same variant with the same offset and != of the rest; it has no order,
\* < and > of two SeekFrom values have no implementation.
C12_EqualityOnly ==
    /\ SeekFromShape(sa) /\ SeekFromShape(sb)
    /\ cmp.op = "copy" => cmp.res = "copied" /\ sb = sa
    /\ cmp.op = "eq" => cmp.res = Answer(sa = sb)
    /\ cmp.op = "ne" => cmp.res = Answer(sa # sb)
    /\ cmp.op \in {"lt", "gt"} => cmp.res = "no impl"

\* Two SeekFrom values of different variants with the same offset were
\* compared with <.
C12_Witness ==
    /\ cmp.op = "lt" /\ cmp.res = "no impl"
    /\ sa.tag # sb.tag /\ sa.off = sb.off

\* The index in h of the last call of the setter of field f, 0 when h has none.
RECURSIVE LastCallOf(_, _)
LastCallOf(h, f) ==
    IF h = << >> THEN 0
    ELSE IF h[Len(h)].f = f THEN Len(h)
    ELSE LastCallOf(SubSeq(h, 1, Len(h) - 1), f)

\* The value a builder started from new() holds in field f when f's setter
\* was never called.
InitialValue(f) ==
    IF f = "mode" THEN permDefault ELSE IF f = "flags" THEN 0 ELSE FALSE

\* What field f must hold after the calls h: the argument of the last call
\* of its setter, or the initial value.
LastSet(h, f) ==
    IF LastCallOf(h, f) = 0 THEN InitialValue(f)
    ELSE Argument(h[LastCallOf(h, f)], f)

\* The builder that the calls h, made in order on OpenOptions::new(), leave.
RECURSIVE RunChain(_)
RunChain(h) ==
    IF h = << >> THEN OpenOptions_new
    ELSE ApplySetter(RunChain(SubSeq(h, 1, Len(h) - 1)), h[Len(h)])

\* What every field must hold after the calls h.
LastSetOfAll(h) == [f \in OpenOptionsFields |-> LastSet(h, f)]

\* The orders in which n calls can be made.
Orders ==
    [n \in 0..MaxCalls |->
        {q \in [1..n -> 1..n] : \A i, j \in 1..n : q[i] = q[j] => i = j}]

\* The sequences that hold the calls of h in another order.
Reorderings(h) == {[i \in 1..Len(h) |-> h[p[i]]] : p \in Orders[Len(h)]}

\* C13 as stated: after any sequence of setter calls on a builder started from
\* OpenOptions::new(), each field equals the argument of the last call of
\* its setter, or its default when the setter was never called; when the
\* last two calls were of setters of different fields, making them in the
\* other order leaves an equal builder; when they were the same call made
\* twice, making it once leaves an equal builder; and a builder built by the
\* same calls in any other order that agrees on the last argument of every
\* field compares equal.
C13_LastCallOfEachSetterWins ==
    /\ \A f \in OpenOptionsFields : oo[f] = LastSet(hist, f)
    /\ Len(hist) >= 2 =>
          LET n == Len(hist)
              before == SubSeq(hist, 1, n - 2)
          IN  /\ hist[n - 1].f # hist[n].f =>
                    OpenOptions_eq(oo, RunChain(before \o <<hist[n], hist[n - 1]>>))
              /\ hist[n - 1] = hist[n] =>
                    OpenOptions_eq(oo, RunChain(before \o <<hist[n]>>))
    /\ LET wanted == LastSetOfAll(hist)
       IN  \A h \in Reorderings(hist) :
               LastSetOfAll(h) = wanted => OpenOptions_eq(RunChain(h), oo)

\* C13, amended: after any sequence of setter calls on a builder started
\* from OpenOptions::new(), each field holds the argument of the last call of
\* its setter, or its default when the setter was never called; making the
\* last two calls in the other order when they set different fields, making
\* the last call once when it was made twice, and making the same calls in
\* any other order that agrees on the last argument of every field, each
\* leave a builder with the same field values, and it compares equal to
\* this one exactly when the == of the Permissions type holds between the
\* mode and itself.
C13_LastCallWinsEqualWhereModeIs ==
    /\ \A f \in OpenOptionsFields : oo[f] = LastSet(hist, f)
    /\ Len(hist) >= 2 =>
          LET n == Len(hist)
              before == SubSeq(hist, 1, n - 2)
              swapped == RunChain(before \o <<hist[n], hist[n - 1]>>)
              once == RunChain(before \o <<hist[n]>>)
          IN  /\ hist[n - 1].f # hist[n].f =>
                    /\ swapped = oo
                    /\ OpenOptions_eq(oo, swapped) <=> Permissions_eq(oo.mode, oo.mode)
              /\ hist[n - 1] = hist[n] =>
                    /\ once = oo
                    /\ OpenOptions_eq(oo, once) <=> Permissions_eq(oo.mode, oo.mode)
    /\ LET wanted == LastSetOfAll(hist)
       IN  \A h \in Reorderings(hist) :
               LastSetOfAll(h) = wanted =>
                   /\ RunChain(h) = oo
                   /\ OpenOptions_eq(RunChain(h), oo) <=> Permissions_eq(oo.mode, oo.mode)

\* create(true) and then create(false) were chained on a builder whose mode
\* was never set, for a Permissions type whose default is not the zero value:
\* the builder equals the one new() returns.
C13_Witness ==
    /\ Len(hist) = 2
    /\ hist[1] = [f |-> "create", b |-> TRUE, n |-> 0]
    /\ hist[2] = [f |-> "create", b |-> FALSE, n |-> 0]
    /\ permDefault # 0
    /\ OpenOptions_eq(oo, OpenOptions_new)

=============================================================================
